---- MODULE Spec2Model ----
(***************************************************************************)
(* pyesgf/multidict.py: MultiDict, TrackableMultiDict, NestedMultiDict and *)
(* NoVars.  A pair is <<key, value>>; a Python list of pairs is a          *)
(* sequence.  List objects live in a heap so that two dictionaries can     *)
(* hold the same list (MultiDict.view_list) or different ones (copy).      *)
(***************************************************************************)
EXTENDS Integers, Sequences, FiniteSets, TLC

\* Longest list of pairs a dictionary may hold.
MaxLen == 3
\* Longest source handed to update() and extend().
MaxSrc == 2
\* Longest list where a specification runs several lists side by side.
MaxShared == 2

Keys == {"a", "b"}
Vals == {1, 2}

\* Argument sets of the specifications that run several dictionaries at once.
OneKey == {"a"}
OneVal == {1}
OtherVal == {3}

VARIABLES
    mixin,   \* the DictMixin the module imported: "UserDict" or "MutableMapping"
    heap,    \* list object -> its pairs
    ref,     \* dictionary -> the list object its _items attribute names
    made,    \* the dictionaries constructed so far
    dicts,   \* NestedMultiDict.dicts: the wrapped dictionaries, in order
    reason,  \* NoVars.reason
    notes,   \* the tracker invocations made by the last call, in order
    added,   \* the pairs handed to g.add so far, in order
    call     \* the last call: operation, receiver, arguments, outcome

vars == <<mixin, heap, ref, made, dicts, reason, notes, added, call>>

\* The caller's list object handed to view_list, and one own list per dictionary.
Dictionaries == {"m", "g", "v1", "v2", "c", "t", "d1", "d2"}
Lists == {"L"} \cup Dictionaries

----------------------------------------------------------------------------
\* Sequences

RemoveAt(s, i) == SubSeq(s, 1, i - 1) \o SubSeq(s, i + 1, Len(s))

RECURSIVE SeqsUpTo(_, _)
SeqsUpTo(S, n) ==
    IF n = 0 THEN {<<>>}
    ELSE LET shorter == SeqsUpTo(S, n - 1)
         IN  shorter \cup {Append(s, x) : s \in shorter, x \in S}

KeysOf(s) == {s[i][1] : i \in 1..Len(s)}

UniqueKeys(s) == \A i, j \in 1..Len(s) : s[i][1] = s[j][1] => i = j

----------------------------------------------------------------------------
\* Sources of update() and extend(): what the code tells apart is which
\* attributes the argument has.
\*   "list"      a sequence of pairs (no items, no keys)
\*   "dict"      a plain mapping: unique keys, pairs in its enumeration order
\*   "multidict" another MultiDict: items, iteritems, keys, a Mapping
\*   "keys"      an object with keys() and [] only

Source(form, pairs) == [form |-> form, pairs |-> pairs]

Sources(K, V, n) ==
    LET all == SeqsUpTo(K \X V, n)
        uniq == {s \in all : UniqueKeys(s)}
    IN  {Source("list", s) : s \in all}
        \cup {Source("multidict", s) : s \in all}
        \cup {Source("dict", s) : s \in uniq}
        \cup {Source("keys", s) : s \in uniq}

\* **kwargs: named pairs, unique keys.
KwArgs(K, V) == {<<>>} \cup {<<p>> : p \in K \X V}

NoSource == Source("None", <<>>)

----------------------------------------------------------------------------
\* The outcome of one method call.
\*   s       the pairs of the list self._items names when the call ends
\*   rebind  self._items was assigned a new list object (s is that list)
\*   ret     <<>> for no value (None, or the call raised), <<x>> for x
\*   exc     "none" or the class of the exception raised
\*   msg     the exception's arguments
\*   warned  warnings.warn was called
\*   notes   the tracker invocations, in order

Return(s, ret) ==
    [s |-> s, rebind |-> FALSE, ret |-> ret, exc |-> "none", msg |-> <<>>,
     warned |-> FALSE, notes |-> <<>>]

Raise(s, exc, msg) ==
    [s |-> s, rebind |-> FALSE, ret |-> <<>>, exc |-> exc, msg |-> msg,
     warned |-> FALSE, notes |-> <<>>]

\* One tracker invocation: the arguments after the dictionary itself, and the
\* dictionary's pairs at that moment.
Note(args, s) == [args |-> args, seen |-> s]

----------------------------------------------------------------------------
\* MultiDict

\* for k, v in reversed(self._items): if k == key: return v
RECURSIVE GetScan(_, _, _)
GetScan(s, key, i) ==
    IF i = 0 THEN Raise(s, "KeyError", <<key>>)
    ELSE IF s[i][1] = key THEN Return(s, <<s[i][2]>>)
    ELSE GetScan(s, key, i - 1)

\* The scan of __getitem__ run from the front of the list.
RECURSIVE GetScanFront(_, _, _)
GetScanFront(s, key, i) ==
    IF i > Len(s) THEN Raise(s, "KeyError", <<key>>)
    ELSE IF s[i][1] = key THEN Return(s, <<s[i][2]>>)
    ELSE GetScanFront(s, key, i + 1)

MD_getitemFront(s, key) == GetScanFront(s, key, 1)

MD_getitem(s, key) == GetScan(s, key, Len(s))

\* for k, v in self._items: if key == k: result.append(v)
RECURSIVE GetAllScan(_, _, _, _)
GetAllScan(s, key, i, result) ==
    IF i > Len(s) THEN result
    ELSE GetAllScan(s, key, i + 1,
                    IF key = s[i][1] THEN Append(result, s[i][2]) ELSE result)

MD_getall(s, key) == Return(s, <<GetAllScan(s, key, 1, <<>>)>>)

\* for k, v in self._items: if k == key: return True
RECURSIVE ContainsScan(_, _, _)
ContainsScan(s, key, i) ==
    IF i > Len(s) THEN FALSE
    ELSE IF s[i][1] = key THEN TRUE
    ELSE ContainsScan(s, key, i + 1)

MD_contains(s, key) == Return(s, <<ContainsScan(s, key, 1)>>)

MD_len(s) == Return(s, <<Len(s)>>)

\* getone returning v[0] for any number of matches.
GetOneOfAny(s, v, key) ==
    IF v = <<>> THEN Raise(s, "KeyError", <<"Key not found: ", key>>)
    ELSE Return(s, <<v[1]>>)

\* getone(key) given v = self.getall(key).
GetOneOf(s, v, key) ==
    IF v = <<>> THEN Raise(s, "KeyError", <<"Key not found: ", key>>)
    ELSE IF Len(v) > 1
    THEN Raise(s, "KeyError", <<"Multiple values match ", key, ": ", v>>)
    ELSE Return(s, <<v[1]>>)

MD_getone(s, key) == GetOneOf(s, MD_getall(s, key).ret[1], key)

\* return self._items[:]
MD_items(s) == Return(s, <<s>>)

\* mixed() over the pairs self.iteritems() gives.  result maps a key to
\* <<"value", v>> for the value v or to <<"list", vs>> for the list vs; multi
\* is the set of keys of the dict multi.
RECURSIVE MixedScan(_, _, _, _)
MixedScan(s, i, result, multi) ==
    IF i > Len(s) THEN result
    ELSE LET key == s[i][1]
             value == s[i][2]
         IN  IF key \in DOMAIN result
             THEN IF key \in multi
                  THEN MixedScan(s, i + 1,
                         [result EXCEPT ![key] = <<"list", Append(@[2], value)>>],
                         multi)
                  ELSE MixedScan(s, i + 1,
                         [result EXCEPT ![key] = <<"list", <<@[2], value>>>>],
                         multi \cup {key})
             ELSE MixedScan(s, i + 1, result @@ (key :> <<"value", value>>), multi)

\* mixed() giving every key the list of its values, as dict_of_lists does.
MD_mixedLists(s) ==
    Return(s, <<[key \in KeysOf(s) |-> <<"list", GetAllScan(s, key, 1, <<>>)>>]>>)

MD_mixed(s) == Return(s, <<MixedScan(s, 1, <<>>, {})>>)

\* DelScan leaving the loop at the first pair it deletes.
RECURSIVE DelScanStops(_, _, _, _)
DelScanStops(items, key, i, found) ==
    IF i = 0 THEN [items |-> items, found |-> found]
    ELSE IF items[i][1] = key THEN [items |-> RemoveAt(items, i), found |-> TRUE]
    ELSE DelScanStops(items, key, i - 1, found)

\* for i in range(len(items)-1, -1, -1): if items[i][0] == key: del items[i]
RECURSIVE DelScan(_, _, _, _)
DelScan(items, key, i, found) ==
    IF i = 0 THEN [items |-> items, found |-> found]
    ELSE IF items[i][1] = key THEN DelScan(RemoveAt(items, i), key, i - 1, TRUE)
    ELSE DelScan(items, key, i - 1, found)

MD_delitem(s, key) ==
    LET d == DelScan(s, key, Len(s), FALSE)
    IN  IF d.found THEN Return(d.items, <<>>)
        ELSE Raise(d.items, "KeyError", <<key>>)

\* MD_setitem without the del self[key].
MD_setitemKeeps(s, key, value) == Return(Append(s, <<key, value>>), <<>>)

\* try: del self[key] / except KeyError: pass / self._items.append((key, value))
MD_setitem(s, key, value) ==
    Return(Append(MD_delitem(s, key).s, <<key, value>>), <<>>)

\* add putting the pair in front of the others.
MD_addFront(s, key, value) == Return(<<<<key, value>>>> \o s, <<>>)

MD_add(s, key, value) == Return(Append(s, <<key, value>>), <<>>)

\* self._items = []
MD_clear(s) == [Return(<<>>, <<>>) EXCEPT !.rebind = TRUE]

\* for k, v in self._items: if key == k: return v
RECURSIVE SetDefaultScan(_, _, _, _)
SetDefaultScan(s, key, default, i) ==
    IF i > Len(s) THEN Return(Append(s, <<key, default>>), <<default>>)
    ELSE IF key = s[i][1] THEN Return(s, <<s[i][2]>>)
    ELSE SetDefaultScan(s, key, default, i + 1)

MD_setdefault(s, key, default) == SetDefaultScan(s, key, default, 1)

\* for i in range(len(self._items)): if self._items[i][0] == key: ...
\* args is <<>> or <<default>>.
RECURSIVE PopScan(_, _, _, _)
PopScan(s, key, args, i) ==
    IF i > Len(s)
    THEN IF args # <<>> THEN Return(s, <<args[1]>>)
         ELSE Raise(s, "KeyError", <<key>>)
    ELSE IF s[i][1] = key THEN Return(RemoveAt(s, i), <<s[i][2]>>)
    ELSE PopScan(s, key, args, i + 1)

\* MD_pop scanning from the end of the list, as __getitem__ does.
RECURSIVE PopScanBack(_, _, _, _)
PopScanBack(s, key, args, i) ==
    IF i = 0
    THEN IF args # <<>> THEN Return(s, <<args[1]>>)
         ELSE Raise(s, "KeyError", <<key>>)
    ELSE IF s[i][1] = key THEN Return(RemoveAt(s, i), <<s[i][2]>>)
    ELSE PopScanBack(s, key, args, i - 1)

MD_popBack(s, key, args) == PopScanBack(s, key, args, Len(s))

MD_pop(s, key, args) ==
    IF Len(args) > 1
    THEN Raise(s, "TypeError", <<"pop expected at most 2 arguments, got ", 1 + Len(args)>>)
    ELSE PopScan(s, key, args, 1)

\* return self._items.pop(): list.pop() raises IndexError on an empty list.
MD_popitem(s) ==
    IF s = <<>> THEN Raise(s, "IndexError", <<"pop from empty list">>)
    ELSE Return(SubSeq(s, 1, Len(s) - 1), <<s[Len(s)]>>)

\* TrackableMultiDict calls self.tracker after the MultiDict method returned;
\* an exception leaves the method before the tracker line.
\* The tracker invoked whether or not the MultiDict method raised.
TrackedAlways(e, args) == [e EXCEPT !.notes = Append(@, Note(args, e.s))]

Tracked(e, args) ==
    IF e.exc # "none" THEN e
    ELSE [e EXCEPT !.notes = Append(@, Note(args, e.s))]

T_setitem(s, key, value) == Tracked(MD_setitem(s, key, value), <<key, value>>)

T_add(s, key, value) == Tracked(MD_add(s, key, value), <<key, value>>)

T_delitem(s, key) == Tracked(MD_delitem(s, key), <<key>>)

T_clear(s) == Tracked(MD_clear(s), <<>>)

T_setdefault(s, key, default) ==
    LET e == MD_setdefault(s, key, default)
    IN  Tracked(e, <<key, e.ret[1]>>)

T_pop(s, key, args) == Tracked(MD_pop(s, key, args), <<key>>)

T_popitem(s) == Tracked(MD_popitem(s), <<>>)

\* self[key] = value, on the class of self.
SetItemOf(cls, s, key, value) ==
    IF cls = "TrackableMultiDict" THEN T_setitem(s, key, value)
    ELSE MD_setitem(s, key, value)

\* MixinPairs taking the first value of a key of another MultiDict, not the
\* value other[key] gives.
MixinPairsFirst(other, mx) ==
    IF other.form = "multidict" /\ mx = "MutableMapping"
    THEN [i \in 1..Len(other.pairs) |->
            <<other.pairs[i][1],
              MD_getall(other.pairs, other.pairs[i][1]).ret[1][1]>>]
    ELSE other.pairs

\* The (key, value) assignments DictMixin.update(self, other) makes, in order.
\* UserDict.DictMixin takes other.iteritems() when there is one, else
\* other.keys() and other[k], else the pairs of other.  MutableMapping takes
\* "for key in other: self[key] = other[key]" for a Mapping (a dict, a
\* MultiDict), other.keys() and other[key] next, else the pairs of other.
MixinPairs(other, mx) ==
    CASE other.form = "None" -> <<>>
      [] other.form = "list" -> other.pairs
      [] other.form = "dict" -> other.pairs
      [] other.form = "keys" ->
            [i \in 1..Len(other.pairs) |->
                <<other.pairs[i][1], MD_getitem(other.pairs, other.pairs[i][1]).ret[1]>>]
      [] other.form = "multidict" ->
            IF mx = "UserDict" THEN other.pairs
            ELSE [i \in 1..Len(other.pairs) |->
                    <<other.pairs[i][1], MD_getitem(other.pairs, other.pairs[i][1]).ret[1]>>]

RECURSIVE AssignAll(_, _, _)
AssignAll(cls, e, todo) ==
    IF todo = <<>> THEN e
    ELSE LET r == SetItemOf(cls, e.s, todo[1][1], todo[1][2])
         IN  AssignAll(cls, [e EXCEPT !.s = r.s, !.notes = @ \o r.notes], Tail(todo))

\* update() warning also when the source names a key the map holds.
MD_updateWarnsOnOverwrite(cls, s, other, mx) ==
    LET warn == other.form # "None"
                /\ \/ Len(other.pairs) # Cardinality(KeysOf(other.pairs))
                   \/ KeysOf(other.pairs) \cap KeysOf(s) # {}
        e == AssignAll(cls, Return(s, <<>>), MixinPairs(other, mx))
    IN  [e EXCEPT !.warned = warn]

\* MultiDict.update(self, *args): args is empty (other.form = "None") or holds
\* the one source.  len(lst) != len(dict(lst)) warns; DictMixin.update assigns.
MD_update(cls, s, other, mx) ==
    LET warn == other.form # "None"
                /\ Len(other.pairs) # Cardinality(KeysOf(other.pairs))
        e == AssignAll(cls, Return(s, <<>>), MixinPairs(other, mx))
    IN  [e EXCEPT !.warned = warn]

T_update(s, other, mx) ==
    Tracked(MD_update("TrackableMultiDict", s, other, mx), <<>>)

\* self.update(...), on the class of self.
UpdateOf(cls, s, other, mx) ==
    IF cls = "TrackableMultiDict" THEN T_update(s, other, mx)
    ELSE MD_update(cls, s, other, mx)

\* MD_extend handing the source to update as well.
MD_extendSets(cls, s, other, kwargs, mx) ==
    LET e == UpdateOf(cls, s, other, mx)
    IN  IF kwargs # <<>> THEN UpdateOf(cls, e.s, Source("dict", kwargs), mx)
        ELSE Return(e.s, <<>>)

\* The pairs extend() appends: other.items(), or (k, other[k]) over
\* other.keys(), or the pairs of other.
ExtendPairs(other) ==
    CASE other.form = "None" -> <<>>
      [] other.form \in {"dict", "multidict"} -> other.pairs
      [] other.form = "keys" ->
            [i \in 1..Len(other.pairs) |->
                <<other.pairs[i][1], MD_getitem(other.pairs, other.pairs[i][1]).ret[1]>>]
      [] other.form = "list" -> other.pairs

\* MultiDict.extend(self, other=None, **kwargs); TrackableMultiDict inherits it.
MD_extend(cls, s, other, kwargs, mx) ==
    LET s1 == s \o ExtendPairs(other)
    IN  IF kwargs # <<>> THEN UpdateOf(cls, s1, Source("dict", kwargs), mx)
        ELSE Return(s1, <<>>)

----------------------------------------------------------------------------
\* NestedMultiDict: comps is the sequence of the wrapped dictionaries' pairs.
\* The object has a dicts attribute and no _items attribute.

\* for d in self.dicts: value = d.get(key, _dummy); if value is not _dummy: ...
RECURSIVE N_getscan(_, _, _)
N_getscan(comps, key, i) ==
    IF i > Len(comps) THEN Raise(<<>>, "KeyError", <<key>>)
    ELSE LET got == MD_getitem(comps[i], key)
         IN  IF got.exc = "none" THEN Return(<<>>, got.ret)
             ELSE N_getscan(comps, key, i + 1)

\* The scan of NestedMultiDict.__getitem__ run from the last dictionary.
RECURSIVE N_getscanBack(_, _, _)
N_getscanBack(comps, key, i) ==
    IF i = 0 THEN Raise(<<>>, "KeyError", <<key>>)
    ELSE LET got == MD_getitem(comps[i], key)
         IN  IF got.exc = "none" THEN Return(<<>>, got.ret)
             ELSE N_getscanBack(comps, key, i - 1)

N_getitemBack(comps, key) == N_getscanBack(comps, key, Len(comps))

N_getitem(comps, key) == N_getscan(comps, key, 1)

RECURSIVE N_getallscan(_, _, _, _)
N_getallscan(comps, key, i, result) ==
    IF i > Len(comps) THEN result
    ELSE N_getallscan(comps, key, i + 1, result \o MD_getall(comps[i], key).ret[1])

N_getall(comps, key) == Return(<<>>, <<N_getallscan(comps, key, 1, <<>>)>>)

RECURSIVE N_containsscan(_, _, _)
N_containsscan(comps, key, i) ==
    IF i > Len(comps) THEN FALSE
    ELSE IF MD_contains(comps[i], key).ret[1] THEN TRUE
    ELSE N_containsscan(comps, key, i + 1)

N_contains(comps, key) == Return(<<>>, <<N_containsscan(comps, key, 1)>>)

RECURSIVE N_lenscan(_, _, _)
N_lenscan(comps, i, v) ==
    IF i > Len(comps) THEN v
    ELSE N_lenscan(comps, i + 1, v + MD_len(comps[i]).ret[1])

N_len(comps) == Return(<<>>, <<N_lenscan(comps, 1, 0)>>)

\* for d in self.dicts: for item in d.iteritems(): yield item
RECURSIVE N_iteritems(_, _)
N_iteritems(comps, i) ==
    IF i > Len(comps) THEN <<>>
    ELSE comps[i] \o N_iteritems(comps, i + 1)

\* getone and mixed are inherited: they run on self.getall and self.iteritems.
N_getone(comps, key) == GetOneOf(<<>>, N_getall(comps, key).ret[1], key)

N_items(comps) == Return(<<>>, <<N_iteritems(comps, 1)>>)

N_mixed(comps) == Return(<<>>, <<MixedScan(N_iteritems(comps, 1), 1, <<>>, {})>>)

N_readonly == Raise(<<>>, "KeyError", <<"NestedMultiDict objects are read-only">>)

\* extend is not among the names bound to _readonly: MultiDict.extend runs,
\* and the first evaluation of self._items raises AttributeError.  With
\* other=None, or a sequence or key list that is empty, no line evaluates it.
N_extend(other, kwargs) ==
    LET touches == \/ other.form \in {"dict", "multidict"}
                   \/ other.form \in {"keys", "list"} /\ other.pairs # <<>>
    IN  IF touches
        THEN Raise(<<>>, "AttributeError",
                   <<"'NestedMultiDict' object has no attribute '_items'">>)
        ELSE IF kwargs # <<>> THEN N_readonly
        ELSE Return(<<>>, <<>>)

----------------------------------------------------------------------------
\* NoVars: rsn is self.reason.

\* self.reason = reason or 'N/A'
NV_init(given) == IF given \in {"None", ""} THEN "N/A" ELSE given

NV_getitem(rsn, key) == Raise(<<>>, "KeyError", <<"No key ", key, ": ", rsn>>)

\* __setitem__, add, setdefault, update
NV_setitem(rsn) == Raise(<<>>, "KeyError", <<"Cannot add variables: ", rsn>>)

\* __delitem__, clear, pop, popitem
NV_delitem(rsn) == Raise(<<>>, "KeyError", <<"No keys to delete: ", rsn>>)

NV_getall(key) == Return(<<>>, << <<>> >>)

NV_contains(key) == Return(<<>>, <<FALSE>>)

NV_len == Return(<<>>, <<0>>)

\* return self[key]
NV_getone(rsn, key) == NV_getitem(rsn, key)

\* items = keys: return []
NV_items == Return(<<>>, << <<>> >>)

\* return {}
NV_mixed == Return(<<>>, << <<>> >>)

\* The class defines no extend and inherits from object.
NV_extend == Raise(<<>>, "AttributeError", <<"'NoVars' object has no attribute 'extend'">>)

----------------------------------------------------------------------------
\* Objects

Objects == Dictionaries \cup {"n", "e"}

\* copy() with self.__class__(self) in every class.
CopyClassSame(cls) == cls

\* The class of what copy() returns: self.__class__(self) in MultiDict,
\* MultiDict(self) in TrackableMultiDict and in NestedMultiDict.
CopyClass(cls) ==
    CASE cls = "MultiDict" -> cls
      [] cls \in {"TrackableMultiDict", "NestedMultiDict"} -> "MultiDict"

\* c is the copy of t where there is a t, and of a MultiDict elsewhere.
Class(o) ==
    CASE o = "t" -> "TrackableMultiDict"
      [] o = "n" -> "NestedMultiDict"
      [] o = "e" -> "NoVars"
      [] o = "c" ->
            CopyClass(IF "t" \in made THEN "TrackableMultiDict" ELSE "MultiDict")
      [] OTHER -> "MultiDict"

Mixins == {"UserDict", "MutableMapping"}

\* self._items
Items(o) == heap[ref[o]]

Comps == [i \in 1..Len(dicts) |-> Items(dicts[i])]

\* What items() shows of an object.
Contents(o) ==
    CASE Class(o) = "NestedMultiDict" -> N_iteritems(Comps, 1)
      [] Class(o) = "NoVars" -> <<>>
      [] OTHER -> Items(o)

\* The length the model lets the list of o grow to.
Bound(o) == IF o \in {"m", "g", "t"} THEN MaxLen ELSE MaxShared

OwnLists == [d \in Dictionaries |-> d]
NoPairs == [l \in Lists |-> <<>>]

\* The record of a call: what was called with what, the receiver's pairs
\* (pre), every list (before) and every _items (refs) as the call began, and
\* what the caller got.
NoCall ==
    [op |-> "none", obj |-> "none", args |-> <<>>, other |-> NoSource,
     kwargs |-> <<>>, pre |-> <<>>, before |-> NoPairs, refs |-> OwnLists,
     ret |-> <<>>, exc |-> "none", msg |-> <<>>, warned |-> FALSE]

\* The caller is between two calls.
Idle == call.op = "none"

\* The call o.op(...) ran with outcome e.  Calls do not overlap: the module
\* is synchronous and single-threaded.
Commit(o, op, args, other, kwargs, e) ==
    /\ Idle
    /\ o \in made
    /\ Len(e.s) <= Bound(o)
    /\ IF o \in Dictionaries
       THEN IF e.rebind
            THEN /\ ref' = [ref EXCEPT ![o] = o]
                 /\ heap' = [heap EXCEPT ![o] = e.s]
            ELSE /\ ref' = ref
                 /\ heap' = [heap EXCEPT ![ref[o]] = e.s]
       ELSE UNCHANGED <<heap, ref>>
    /\ notes' = e.notes
    /\ added' = IF o = "g" /\ op = "add" THEN Append(added, args) ELSE added
    /\ call' = [op |-> op, obj |-> o, args |-> args, other |-> other,
                kwargs |-> kwargs, pre |-> Contents(o), before |-> heap,
                refs |-> ref, ret |-> e.ret, exc |-> e.exc, msg |-> e.msg,
                warned |-> e.warned]
    /\ UNCHANGED <<mixin, made, dicts, reason>>

GetItem(o, key) ==
    Commit(o, "get", <<key>>, NoSource, <<>>,
        CASE Class(o) = "NestedMultiDict" -> N_getitem(Comps, key)
          [] Class(o) = "NoVars" -> NV_getitem(reason, key)
          [] OTHER -> MD_getitem(Items(o), key))

GetAll(o, key) ==
    Commit(o, "getall", <<key>>, NoSource, <<>>,
        CASE Class(o) = "NestedMultiDict" -> N_getall(Comps, key)
          [] Class(o) = "NoVars" -> NV_getall(key)
          [] OTHER -> MD_getall(Items(o), key))

Contains(o, key) ==
    Commit(o, "contains", <<key>>, NoSource, <<>>,
        CASE Class(o) = "NestedMultiDict" -> N_contains(Comps, key)
          [] Class(o) = "NoVars" -> NV_contains(key)
          [] OTHER -> MD_contains(Items(o), key))

Length(o) ==
    Commit(o, "len", <<>>, NoSource, <<>>,
        CASE Class(o) = "NestedMultiDict" -> N_len(Comps)
          [] Class(o) = "NoVars" -> NV_len
          [] OTHER -> MD_len(Items(o)))

GetOne(o, key) ==
    Commit(o, "getone", <<key>>, NoSource, <<>>,
        CASE Class(o) = "NestedMultiDict" -> N_getone(Comps, key)
          [] Class(o) = "NoVars" -> NV_getone(reason, key)
          [] OTHER -> MD_getone(Items(o), key))

ItemList(o) ==
    Commit(o, "items", <<>>, NoSource, <<>>,
        CASE Class(o) = "NestedMultiDict" -> N_items(Comps)
          [] Class(o) = "NoVars" -> NV_items
          [] OTHER -> MD_items(Items(o)))

Mixed(o) ==
    Commit(o, "mixed", <<>>, NoSource, <<>>,
        CASE Class(o) = "NestedMultiDict" -> N_mixed(Comps)
          [] Class(o) = "NoVars" -> NV_mixed
          [] OTHER -> MD_mixed(Items(o)))

SetItem(o, key, value) ==
    Commit(o, "set", <<key, value>>, NoSource, <<>>,
        CASE Class(o) = "MultiDict" -> MD_setitem(Items(o), key, value)
          [] Class(o) = "TrackableMultiDict" -> T_setitem(Items(o), key, value)
          [] Class(o) = "NestedMultiDict" -> N_readonly
          [] Class(o) = "NoVars" -> NV_setitem(reason))

Add(o, key, value) ==
    Commit(o, "add", <<key, value>>, NoSource, <<>>,
        CASE Class(o) = "MultiDict" -> MD_add(Items(o), key, value)
          [] Class(o) = "TrackableMultiDict" -> T_add(Items(o), key, value)
          [] Class(o) = "NestedMultiDict" -> N_readonly
          [] Class(o) = "NoVars" -> NV_setitem(reason))

DelItem(o, key) ==
    Commit(o, "delete", <<key>>, NoSource, <<>>,
        CASE Class(o) = "MultiDict" -> MD_delitem(Items(o), key)
          [] Class(o) = "TrackableMultiDict" -> T_delitem(Items(o), key)
          [] Class(o) = "NestedMultiDict" -> N_readonly
          [] Class(o) = "NoVars" -> NV_delitem(reason))

Clear(o) ==
    Commit(o, "clear", <<>>, NoSource, <<>>,
        CASE Class(o) = "MultiDict" -> MD_clear(Items(o))
          [] Class(o) = "TrackableMultiDict" -> T_clear(Items(o))
          [] Class(o) = "NestedMultiDict" -> N_readonly
          [] Class(o) = "NoVars" -> NV_delitem(reason))

SetDefault(o, key, default) ==
    Commit(o, "setdefault", <<key, default>>, NoSource, <<>>,
        CASE Class(o) = "MultiDict" -> MD_setdefault(Items(o), key, default)
          [] Class(o) = "TrackableMultiDict" -> T_setdefault(Items(o), key, default)
          [] Class(o) = "NestedMultiDict" -> N_readonly
          [] Class(o) = "NoVars" -> NV_setitem(reason))

\* o.pop(key) with args = <<>>, o.pop(key, default) with args = <<default>>.
Pop(o, key, args) ==
    Commit(o, "pop", <<key>> \o args, NoSource, <<>>,
        CASE Class(o) = "MultiDict" -> MD_pop(Items(o), key, args)
          [] Class(o) = "TrackableMultiDict" -> T_pop(Items(o), key, args)
          [] Class(o) = "NestedMultiDict" -> N_readonly
          [] Class(o) = "NoVars" -> NV_delitem(reason))

PopItem(o) ==
    Commit(o, "popitem", <<>>, NoSource, <<>>,
        CASE Class(o) = "MultiDict" -> MD_popitem(Items(o))
          [] Class(o) = "TrackableMultiDict" -> T_popitem(Items(o))
          [] Class(o) = "NestedMultiDict" -> N_readonly
          [] Class(o) = "NoVars" -> NV_delitem(reason))

\* o.update() with other = NoSource, o.update(other) otherwise.
Update(o, other) ==
    Commit(o, "update", <<>>, other, <<>>,
        CASE Class(o) = "MultiDict" -> MD_update("MultiDict", Items(o), other, mixin)
          [] Class(o) = "TrackableMultiDict" -> T_update(Items(o), other, mixin)
          [] Class(o) = "NestedMultiDict" -> N_readonly
          [] Class(o) = "NoVars" -> NV_setitem(reason))

\* o.extend(other, **kwargs), other = NoSource for the default None.
Extend(o, other, kwargs) ==
    Commit(o, "extend", <<>>, other, kwargs,
        CASE Class(o) \in {"MultiDict", "TrackableMultiDict"} ->
                MD_extend(Class(o), Items(o), other, kwargs, mixin)
          [] Class(o) = "NestedMultiDict" -> N_extend(other, kwargs)
          [] Class(o) = "NoVars" -> NV_extend)

\* ConstructFrom keeping the list of o, as view_list keeps its argument.
ConstructFromAliased(o, c) == [list |-> ref[o], pairs |-> Contents(o)]

\* MultiDict.__init__ with one positional argument that has iteritems:
\* items = list(args[0].iteritems()); self._items = items.  The new object c
\* gets a list of its own.
ConstructFrom(o, c) == [list |-> c, pairs |-> Contents(o)]

\* c = o.copy(): self.__class__(self) in MultiDict, MultiDict(self) in
\* TrackableMultiDict and NestedMultiDict.
Copy(o, c) ==
    /\ Idle
    /\ o \in made
    /\ Class(o) # "NoVars"
    /\ LET r == ConstructFrom(o, c)
       IN  /\ ref' = [ref EXCEPT ![c] = r.list]
           /\ heap' = [heap EXCEPT ![r.list] = r.pairs]
    /\ made' = made \cup {c}
    /\ notes' = <<>>
    /\ call' = [NoCall EXCEPT !.op = "copy", !.obj = o, !.pre = Contents(o),
                              !.before = heap, !.refs = ref, !.ret = <<c>>]
    /\ UNCHANGED <<mixin, dicts, reason, added>>

\* The caller has taken the outcome of the last call and goes on.
Resume ==
    /\ ~Idle
    /\ call' = NoCall
    /\ notes' = <<>>
    /\ UNCHANGED <<mixin, heap, ref, made, dicts, reason, added>>

----------------------------------------------------------------------------
\* Specifications

\* Every method of the objects O, with keys K, values V, sources S and
\* keyword arguments KW.
Reads(O, K) ==
    \E o \in O :
        \/ Idle /\ \E key \in K : GetItem(o, key)
        \/ Idle /\ \E key \in K : GetAll(o, key)
        \/ Idle /\ \E key \in K : Contains(o, key)
        \/ Idle /\ Length(o)
        \/ Idle /\ \E key \in K : GetOne(o, key)
        \/ Idle /\ ItemList(o)
        \/ Idle /\ Mixed(o)

Writes(O, K, V, S, KW) ==
    \E o \in O :
        \/ Idle /\ \E key \in K, value \in V : SetItem(o, key, value)
        \/ Idle /\ \E key \in K, value \in V : Add(o, key, value)
        \/ Idle /\ \E key \in K : DelItem(o, key)
        \/ Idle /\ Clear(o)
        \/ Idle /\ \E key \in K, default \in V : SetDefault(o, key, default)
        \/ Idle /\ \E key \in K : Pop(o, key, <<>>)
        \/ Idle /\ \E key \in K, default \in V : Pop(o, key, <<default>>)
        \/ Idle /\ PopItem(o)
        \/ Idle /\ \E other \in S \cup {NoSource} : Update(o, other)
        \/ Idle /\ \E other \in S \cup {NoSource}, kwargs \in KW : Extend(o, other, kwargs)

\* One MultiDict, m = MultiDict().
InitMap ==
    /\ mixin \in Mixins
    /\ heap = NoPairs
    /\ ref = OwnLists
    /\ made = {"m"}
    /\ dicts = <<>>
    /\ reason = "N/A"
    /\ notes = <<>>
    /\ added = <<>>
    /\ call = NoCall

MapSources == Sources(Keys, Vals, MaxSrc)
MapKwArgs == KwArgs(Keys, Vals)

NextMap ==
    \/ Reads({"m"}, Keys)
    \/ Writes({"m"}, Keys, Vals, MapSources, MapKwArgs)
    \/ Resume

SpecMap == InitMap /\ [][NextMap]_vars

\* One TrackableMultiDict with a tracker, t = TrackableMultiDict(__tracker=f).
InitTrack ==
    /\ mixin \in Mixins
    /\ heap = NoPairs
    /\ ref = OwnLists
    /\ made = {"t"}
    /\ dicts = <<>>
    /\ reason = "N/A"
    /\ notes = <<>>
    /\ added = <<>>
    /\ call = NoCall

NextTrack ==
    \/ Reads({"t"}, Keys)
    \/ Writes({"t"}, Keys, Vals, MapSources, MapKwArgs)
    \/ Resume

SpecTrack == InitTrack /\ [][NextTrack]_vars

SharedSources == Sources(Keys, OneVal, 1)
SharedKwArgs == KwArgs(OneKey, OneVal)

\* Two views of the caller's list: v1 = MultiDict.view_list(L) and
\* v2 = MultiDict.view_list(L), obj._items = lst in both.
InitView ==
    /\ mixin \in Mixins
    /\ heap = NoPairs
    /\ ref = [OwnLists EXCEPT !["v1"] = "L", !["v2"] = "L"]
    /\ made = {"v1", "v2"}
    /\ dicts = <<>>
    /\ reason = "N/A"
    /\ notes = <<>>
    /\ added = <<>>
    /\ call = NoCall

NextView ==
    \/ Writes({"v1", "v2"}, Keys, OneVal, SharedSources, SharedKwArgs)
    \/ Resume

SpecView == InitView /\ [][NextView]_vars

\* A view v1 of the caller's list, and c = v1.copy().
InitCopy ==
    /\ mixin \in Mixins
    /\ heap = NoPairs
    /\ ref = [OwnLists EXCEPT !["v1"] = "L"]
    /\ made = {"v1"}
    /\ dicts = <<>>
    /\ reason = "N/A"
    /\ notes = <<>>
    /\ added = <<>>
    /\ call = NoCall

NextCopy ==
    \/ Writes({"v1", "c"}, Keys, OneVal, SharedSources, SharedKwArgs)
    \/ Copy("v1", "c")
    \/ Resume

SpecCopy == InitCopy /\ [][NextCopy]_vars

\* n = NestedMultiDict(d1, d2) over two MultiDicts.
InitNested ==
    /\ mixin \in Mixins
    /\ heap = NoPairs
    /\ ref = OwnLists
    /\ made = {"d1", "d2", "n"}
    /\ dicts = <<"d1", "d2">>
    /\ reason = "N/A"
    /\ notes = <<>>
    /\ added = <<>>
    /\ call = NoCall

\* d1 is given the values 1 and 2 and d2 the value 3, so that the value of a
\* pair shows which dictionary it came from.
NextNested ==
    \/ Reads({"n"}, Keys)
    \/ Writes({"n"}, Keys, Vals, SharedSources, SharedKwArgs)
    \/ Writes({"d1"}, Keys, Vals, Sources(Keys, Vals, 1), SharedKwArgs)
    \/ Writes({"d2"}, Keys, OtherVal, Sources(Keys, OtherVal, 1), KwArgs(OneKey, OtherVal))
    \/ Resume

SpecNested == InitNested /\ [][NextNested]_vars

\* e = NoVars(given): no reason, an empty one, or a text.
Reasons == {"None", "", "no request body"}

InitNoVars ==
    /\ mixin \in Mixins
    /\ heap = NoPairs
    /\ ref = OwnLists
    /\ made = {"e"}
    /\ dicts = <<>>
    /\ \E given \in Reasons : reason = NV_init(given)
    /\ notes = <<>>
    /\ added = <<>>
    /\ call = NoCall

NextNoVars ==
    \/ Reads({"e"}, Keys)
    \/ Writes({"e"}, Keys, Vals, MapSources, MapKwArgs)
    \/ Resume

SpecNoVars == InitNoVars /\ [][NextNoVars]_vars

\* g = MultiDict(), and nothing but add changes it.
InitAdd ==
    /\ mixin \in Mixins
    /\ heap = NoPairs
    /\ ref = OwnLists
    /\ made = {"g"}
    /\ dicts = <<>>
    /\ reason = "N/A"
    /\ notes = <<>>
    /\ added = <<>>
    /\ call = NoCall

NextAdd ==
    \/ Idle /\ \E key \in Keys, value \in Vals : Add("g", key, value)
    \/ Reads({"g"}, Keys)
    \/ Resume

SpecAdd == InitAdd /\ [][NextAdd]_vars

\* t = TrackableMultiDict(__tracker=f), and c = t.copy().
InitTrackCopy ==
    /\ mixin \in Mixins
    /\ heap = NoPairs
    /\ ref = OwnLists
    /\ made = {"t"}
    /\ dicts = <<>>
    /\ reason = "N/A"
    /\ notes = <<>>
    /\ added = <<>>
    /\ call = NoCall

NextTrackCopy ==
    \/ Writes({"t", "c"}, Keys, OneVal, SharedSources, SharedKwArgs)
    \/ Copy("t", "c")
    \/ Resume

SpecTrackCopy == InitTrackCopy /\ [][NextTrackCopy]_vars

----------------------------------------------------------------------------
\* Claims

Mutators ==
    {"set", "add", "delete", "clear", "setdefault", "pop", "popitem", "update",
     "extend"}

\* The pairs of dictionary o as the last call began.
Old(o) == call.before[call.refs[o]]

\* s without the pairs whose key is key, the rest in order.
Without(s, key) == SelectSeq(s, LAMBDA p : p[1] # key)

\* The values s holds for key, in order.
ValuesOf(s, key) ==
    LET at == SelectSeq(s, LAMBDA p : p[1] = key)
    IN  [i \in 1..Len(at) |-> at[i][2]]

HasKey(s, key) == \E i \in 1..Len(s) : s[i][1] = key

\* C1: after any calls through the two views of the list L, each view shows
\* exactly the pairs of L.
C1_ViewsShowTheList ==
    \A o \in {"v1", "v2"} : Contents(o) = heap["L"]

\* C2: a call on the tracked dictionary that returned and changed its pairs
\* invoked the tracker, with key and value for set and add, with the key
\* alone for delete, and with no key for clear, popitem and update.
C2_EveryMutationNotifies ==
    (call.obj = "t" /\ call.op \in Mutators /\ call.exc = "none"
        /\ Items("t") # call.pre) =>
        /\ notes # <<>>
        /\ call.op \in {"set", "add", "delete"} =>
                notes[Len(notes)].args = call.args
        /\ call.op \in {"clear", "popitem", "update"} =>
                notes[Len(notes)].args = <<>>

\* C3: every mutating call on the NestedMultiDict raises the read-only
\* KeyError and leaves every list as it was.
C3_NestedWritesFail ==
    (call.obj = "n" /\ call.op \in Mutators) =>
        /\ call.exc = "KeyError"
        /\ call.msg = <<"NestedMultiDict objects are read-only">>
        /\ heap = call.before

\* C4: NoVars is empty for every key (get raises KeyError, getall is the
\* empty list, contains is false, the length is 0) and every mutating call
\* raises a KeyError whose message ends with the reason.
C4_NoVarsEmptyAndReadOnly ==
    call.obj = "e" =>
        /\ call.op = "get" => call.exc = "KeyError"
        /\ call.op = "getall" => call.exc = "none" /\ call.ret = << <<>> >>
        /\ call.op = "contains" => call.exc = "none" /\ call.ret = <<FALSE>>
        /\ call.op = "len" => call.exc = "none" /\ call.ret = <<0>>
        /\ call.op \in Mutators =>
                /\ call.exc = "KeyError"
                /\ call.msg # <<>>
                /\ call.msg[Len(call.msg)] = reason

\* C5: popitem returns and removes the last pair of a non-empty MultiDict and
\* keeps the pairs before it; on an empty one it raises KeyError and the
\* MultiDict stays empty.
C5_PopItemContract ==
    (call.obj = "m" /\ call.op = "popitem") =>
        IF call.pre = <<>>
        THEN call.exc = "KeyError" /\ Items("m") = <<>>
        ELSE /\ call.exc = "none"
             /\ call.ret = <<call.pre[Len(call.pre)]>>
             /\ Items("m") = SubSeq(call.pre, 1, Len(call.pre) - 1)

\* C6: c = v1.copy() holds the pairs of v1 in order and leaves v1 alone; no
\* call on c changes the pairs of v1 or of the list v1 was built on, and no
\* call on v1 changes the pairs of c.
C6_CopyIsIndependent ==
    /\ call.op = "copy" =>
            /\ Items("c") = call.pre
            /\ Items("v1") = call.pre
            /\ heap["L"] = call.before["L"]
    /\ (call.obj = "c" /\ call.op \in Mutators) =>
            /\ Items("v1") = Old("v1")
            /\ heap["L"] = call.before["L"]
    /\ (call.obj = "v1" /\ call.op \in Mutators /\ "c" \in made) =>
            Items("c") = Old("c")

\* A call changed the copy while the original, still a view of L, held pairs.
C6_Witness ==
    /\ call.obj = "c" /\ call.op \in Mutators
    /\ Items("c") # call.pre
    /\ ref["v1"] = "L"
    /\ Items("v1") # <<>>
    /\ Items("v1") # Items("c")

\* C7: set(k, v) leaves the earlier pairs without those of key k, in order,
\* followed by (k, v); getall(k) is then [v].
C7_SetReplacesKey ==
    (call.obj = "m" /\ call.op = "set") =>
        /\ call.exc = "none"
        /\ Items("m") = Append(Without(call.pre, call.args[1]), call.args)
        /\ MD_getall(Items("m"), call.args[1]).ret[1] = <<call.args[2]>>

\* set(k, v) ran on a MultiDict with two pairs of k around a pair of another key.
C7_Witness ==
    /\ call.obj = "m" /\ call.op = "set"
    /\ Len(ValuesOf(call.pre, call.args[1])) >= 2
    /\ Len(call.pre) = 3
    /\ call.pre[2][1] # call.args[1]

\* C8: delete(k) with a pair of k present removes every pair of k and keeps
\* the others in order; with none present it raises KeyError and changes
\* nothing.
C8_DeleteRemovesAll ==
    (call.obj = "m" /\ call.op = "delete") =>
        IF HasKey(call.pre, call.args[1])
        THEN call.exc = "none" /\ Items("m") = Without(call.pre, call.args[1])
        ELSE /\ call.exc = "KeyError"
             /\ call.msg = <<call.args[1]>>
             /\ Items("m") = call.pre

\* delete(k) removed two pairs of k and kept a pair of another key.
C8_Witness ==
    /\ call.obj = "m" /\ call.op = "delete" /\ call.exc = "none"
    /\ Len(call.pre) = 3
    /\ Len(Items("m")) = 1

\* The place of the first pair of key in s.
FirstAt(s, key) ==
    CHOOSE i \in 1..Len(s) : s[i][1] = key /\ \A j \in 1..(i - 1) : s[j][1] # key

\* C9: pop(k) removes the first pair of k only and returns its value, so
\* that getall(k) loses its first element; with no pair of k, pop(k, d)
\* returns d, pop(k) raises KeyError, and the pairs stay as they were.
C9_PopRemovesFirst ==
    (call.obj = "m" /\ call.op = "pop") =>
        LET key == call.args[1]
        IN  IF HasKey(call.pre, key)
            THEN /\ call.exc = "none"
                 /\ call.ret = <<call.pre[FirstAt(call.pre, key)][2]>>
                 /\ Items("m") = RemoveAt(call.pre, FirstAt(call.pre, key))
                 /\ ValuesOf(Items("m"), key) = Tail(ValuesOf(call.pre, key))
            ELSE /\ Items("m") = call.pre
                 /\ IF Len(call.args) = 2
                    THEN call.exc = "none" /\ call.ret = <<call.args[2]>>
                    ELSE call.exc = "KeyError" /\ call.msg = <<key>>

\* pop(k) ran with two pairs of k holding different values.
C9_Witness ==
    /\ call.obj = "m" /\ call.op = "pop" /\ call.exc = "none"
    /\ Len(ValuesOf(call.pre, call.args[1])) >= 2
    /\ ValuesOf(call.pre, call.args[1])[1] # ValuesOf(call.pre, call.args[1])[2]
    /\ ValuesOf(Items("m"), call.args[1]) # <<>>

\* set(k, v) for each pair of pairs, in order, starting from s.
RECURSIVE SetEach(_, _)
SetEach(s, pairs) ==
    IF pairs = <<>> THEN s
    ELSE SetEach(MD_setitem(s, pairs[1][1], pairs[1][2]).s, Tail(pairs))

\* C10: update(source) ends with the pairs that set(k, v) for each pair of
\* the source, in source order, ends with, whatever the source is.
C10_UpdateIsRepeatedSet ==
    (call.obj = "m" /\ call.op = "update") =>
        /\ call.exc = "none"
        /\ Items("m") = SetEach(call.pre, call.other.pairs)

\* update ran with another MultiDict that holds a key twice with different
\* values, under the MutableMapping mixin, on a MultiDict that held the key.
C10_Witness ==
    /\ call.obj = "m" /\ call.op = "update"
    /\ mixin = "MutableMapping"
    /\ call.other.form = "multidict"
    /\ \E k \in Keys :
            /\ Len(ValuesOf(call.other.pairs, k)) = 2
            /\ ValuesOf(call.other.pairs, k)[1] # ValuesOf(call.other.pairs, k)[2]
            /\ HasKey(call.pre, k)

\* C11: extend(source) without named pairs appends the pairs of source in
\* order: the earlier pairs are a prefix of the new ones and the length grows
\* by the number of pairs of source.  With named pairs, those are set
\* afterwards: every earlier pair of a named key, the appended ones included,
\* is removed and the named pairs come last.
C11_ExtendAppends ==
    (call.obj = "m" /\ call.op = "extend") =>
        LET all == call.pre \o call.other.pairs
            named == KeysOf(call.kwargs)
        IN  /\ call.exc = "none"
            /\ call.kwargs = <<>> =>
                    /\ Items("m") = all
                    /\ SubSeq(Items("m"), 1, Len(call.pre)) = call.pre
                    /\ Len(Items("m")) = Len(call.pre) + Len(call.other.pairs)
            /\ call.kwargs # <<>> =>
                    Items("m") =
                        SelectSeq(all, LAMBDA p : p[1] \notin named) \o call.kwargs

\* extend(source, k=v) ran with a pair of k both in the map and in source,
\* and with a pair of another key that stayed.
C11_Witness ==
    /\ call.obj = "m" /\ call.op = "extend" /\ call.kwargs # <<>>
    /\ HasKey(call.pre, call.kwargs[1][1])
    /\ HasKey(call.other.pairs, call.kwargs[1][1])
    /\ Len(Items("m")) >= 2

\* extend(source) appended a pair whose key the map already held.
C11_WitnessAppend ==
    /\ call.obj = "m" /\ call.op = "extend" /\ call.kwargs = <<>>
    /\ call.pre # <<>> /\ call.other.pairs # <<>>
    /\ HasKey(call.pre, call.other.pairs[1][1])

\* C12: get(k) returns the value of the last pair of key k, raises KeyError
\* exactly when no pair has key k, and leaves the pairs as they were.
C12_GetReturnsLast ==
    (call.obj = "m" /\ call.op = "get") =>
        LET vs == ValuesOf(call.pre, call.args[1])
        IN  /\ Items("m") = call.pre
            /\ IF vs = <<>>
               THEN call.exc = "KeyError" /\ call.msg = <<call.args[1]>>
               ELSE call.exc = "none" /\ call.ret = <<vs[Len(vs)]>>

\* get(k) ran after add(k, v1) and add(k, v2) with v1 # v2 as the last calls
\* that changed the map.
C12_Witness ==
    /\ call.obj = "m" /\ call.op = "get" /\ call.exc = "none"
    /\ Len(call.pre) >= 2
    /\ call.pre[Len(call.pre)][1] = call.args[1]
    /\ call.pre[Len(call.pre) - 1][1] = call.args[1]
    /\ call.pre[Len(call.pre)][2] # call.pre[Len(call.pre) - 1][2]

\* C13: getone(k) returns the value of k when exactly one pair has key k; it
\* raises the KeyError "Key not found" when none has, and the KeyError
\* "Multiple values match" with all the values of k in order when two or
\* more have; the pairs stay as they were.
C13_GetOneContract ==
    (call.obj = "m" /\ call.op = "getone") =>
        LET key == call.args[1]
            vs == ValuesOf(call.pre, key)
        IN  /\ Items("m") = call.pre
            /\ CASE Len(vs) = 0 ->
                        /\ call.exc = "KeyError"
                        /\ call.msg = <<"Key not found: ", key>>
                 [] Len(vs) = 1 ->
                        call.exc = "none" /\ call.ret = <<vs[1]>>
                 [] OTHER ->
                        /\ call.exc = "KeyError"
                        /\ call.msg = <<"Multiple values match ", key, ": ", vs>>

\* getone(k) ran with two pairs of k holding different values and a pair of
\* another key between them.
C13_Witness ==
    /\ call.obj = "m" /\ call.op = "getone" /\ call.exc = "KeyError"
    /\ Len(call.pre) = 3
    /\ call.pre[1][1] = call.args[1]
    /\ call.pre[2][1] # call.args[1]
    /\ call.pre[3][1] = call.args[1]
    /\ call.pre[1][2] # call.pre[3][2]

\* C14: after any sequence of add calls on an empty MultiDict, getall(k)
\* returns for every key k the values added under k in the order they were
\* added, the empty list when there were none, and raises nothing; add
\* keeps the earlier pairs where they were and puts the new pair last.
C14_GetAllAfterAdds ==
    /\ \A k \in Keys :
            LET got == MD_getall(Items("g"), k)
            IN  got.exc = "none" /\ got.ret = <<ValuesOf(added, k)>>
    /\ (call.obj = "g" /\ call.op = "getall") =>
            /\ call.exc = "none"
            /\ call.ret = <<ValuesOf(added, call.args[1])>>
    /\ (call.obj = "g" /\ call.op = "add") =>
            /\ call.exc = "none"
            /\ Items("g") = Append(call.pre, call.args)

\* getall(k) ran after two adds of k with different values and an add of
\* another key between them.
C14_Witness ==
    /\ call.obj = "g" /\ call.op = "getall"
    /\ Len(added) = 3
    /\ added[1][1] = call.args[1]
    /\ added[2][1] # call.args[1]
    /\ added[3][1] = call.args[1]
    /\ added[1][2] # added[3][2]
    /\ call.ret = <<<<added[1][2], added[3][2]>>>>

\* C15: on n = NestedMultiDict(d1, d2), get(k) returns what the first of d1,
\* d2 holding k gives for k and raises KeyError when neither holds k;
\* getall(k) is d1.getall(k) followed by d2.getall(k); the length is the sum
\* of the two lengths; items() is the pairs of d1 followed by those of d2.
C15_NestedReads ==
    call.obj = "n" =>
        LET c1 == Items("d1")
            c2 == Items("d2")
            key == call.args[1]
            v1 == ValuesOf(c1, key)
            v2 == ValuesOf(c2, key)
        IN  /\ call.op = "get" =>
                    CASE v1 # <<>> ->
                            call.exc = "none" /\ call.ret = <<v1[Len(v1)]>>
                      [] v1 = <<>> /\ v2 # <<>> ->
                            call.exc = "none" /\ call.ret = <<v2[Len(v2)]>>
                      [] OTHER ->
                            call.exc = "KeyError" /\ call.msg = <<key>>
            /\ call.op = "getall" =>
                    call.exc = "none" /\ call.ret = <<v1 \o v2>>
            /\ call.op = "len" =>
                    call.exc = "none" /\ call.ret = <<Len(c1) + Len(c2)>>
            /\ call.op = "items" =>
                    call.exc = "none" /\ call.ret = <<c1 \o c2>>

\* get(k) ran on n with pairs of k in d1 and in d2.
C15_Witness ==
    /\ call.obj = "n" /\ call.op = "get" /\ call.exc = "none"
    /\ Len(ValuesOf(Items("d1"), call.args[1])) = 2
    /\ HasKey(Items("d2"), call.args[1])
    /\ call.ret = <<2>>

\* C16: delete(k) and pop(k) with no pair of k and popitem() on an empty
\* TrackableMultiDict raise; a call on the TrackableMultiDict that raised
\* did not invoke the tracker and left the pairs as they were.
C16_FailureIsSilent ==
    call.obj = "t" =>
        /\ (call.op = "delete" /\ ~HasKey(call.pre, call.args[1])) =>
                call.exc # "none"
        /\ (call.op = "pop" /\ ~HasKey(call.pre, call.args[1])
                /\ Len(call.args) = 1) =>
                call.exc # "none"
        /\ (call.op = "popitem" /\ call.pre = <<>>) => call.exc # "none"
        /\ (call.op \in Mutators /\ call.exc # "none") =>
                notes = <<>> /\ Items("t") = call.pre

\* delete(k) raised on a TrackableMultiDict holding pairs of another key.
C16_Witness ==
    /\ call.obj = "t" /\ call.op = "delete" /\ call.exc = "KeyError"
    /\ call.pre # <<>>
    /\ notes = <<>>

\* C17: c = t.copy() is a plain MultiDict holding the pairs of t in order,
\* made without invoking the tracker and without changing t; no mutating
\* call on c invokes the tracker of t or changes the pairs of t.
C17_CopyIsUntracked ==
    /\ (call.obj = "t" /\ call.op = "copy") =>
            /\ Class("c") = "MultiDict"
            /\ Items("c") = call.pre
            /\ Items("t") = call.pre
            /\ notes = <<>>
    /\ (call.obj = "c" /\ call.op \in Mutators) =>
            /\ notes = <<>>
            /\ Items("t") = Old("t")

\* A call changed the copy while the tracked original held other pairs.
C17_Witness ==
    /\ call.obj = "c" /\ call.op \in Mutators /\ call.exc = "none"
    /\ Items("c") # call.pre
    /\ Items("t") # <<>>
    /\ Items("t") # Items("c")

\* C18: mixed() returns a mapping over exactly the keys present; a key of one
\* pair maps to the value of that pair and a key of two or more pairs maps
\* to the list of its values in order; the pairs stay as they were.
C18_MixedShape ==
    (call.obj = "m" /\ call.op = "mixed") =>
        /\ call.exc = "none"
        /\ Items("m") = call.pre
        /\ DOMAIN call.ret[1] = KeysOf(call.pre)
        /\ \A key \in KeysOf(call.pre) :
                LET vs == ValuesOf(call.pre, key)
                    got == call.ret[1][key]
                IN  IF Len(vs) = 1
                    THEN got[1] = "value" /\ got[2] = vs[1]
                    ELSE got[1] = "list" /\ got[2] = vs

\* mixed() ran on a map holding one pair of one key and then two pairs, of
\* different values, of another.
C18_Witness ==
    /\ call.obj = "m" /\ call.op = "mixed"
    /\ Len(call.pre) = 3
    /\ call.pre[1][1] # call.pre[2][1]
    /\ call.pre[2][1] = call.pre[3][1]
    /\ call.pre[2][2] # call.pre[3][2]
    /\ call.ret[1][call.pre[1][1]] = <<"value", call.pre[1][2]>>
    /\ call.ret[1][call.pre[2][1]] = <<"list", <<call.pre[2][2], call.pre[3][2]>>>>

\* C19: at every invocation of the tracker during a mutating call on the
\* TrackableMultiDict, the pairs it sees are already those the call ends
\* with.
C19_TrackerSeesFinalState ==
    (call.obj = "t" /\ call.op \in Mutators) =>
        \A i \in 1..Len(notes) : notes[i].seen = Items("t")

\* C20: update(source) warns exactly when two pairs of the source itself
\* have the same key, whatever keys the map holds; the call then still
\* returns, and the map ends with the pairs that setting each pair of the
\* source in order gives, which is what update ends with when it does not
\* warn.
C20_WarnsOnSourceDuplicates ==
    (call.obj = "m" /\ call.op = "update") =>
        /\ call.warned <=>
                (call.other.form # "None" /\ ~UniqueKeys(call.other.pairs))
        /\ call.warned =>
                /\ call.exc = "none"
                /\ Items("m") = SetEach(call.pre, call.other.pairs)

\* update(source) warned on a map that held none of the keys of the source.
C20_Witness ==
    /\ call.obj = "m" /\ call.op = "update" /\ call.warned
    /\ call.pre # <<>>
    /\ KeysOf(call.pre) \cap KeysOf(call.other.pairs) = {}
    /\ Items("m") # call.pre

\* update(source) replaced a pair the map held and did not warn.
C20_WitnessQuiet ==
    /\ call.obj = "m" /\ call.op = "update" /\ ~call.warned
    /\ KeysOf(call.pre) \cap KeysOf(call.other.pairs) # {}
    /\ Items("m") # call.pre

====
